---- MODULE Spec2Model ----
(***************************************************************************)
(* Model of the InaSAFE raster core:                                       *)
(*   - FloodEvacuationRasterHazardFunction.run  (threshold classifier)     *)
(*   - _get_pixel_coordinates / pixels_to_points / polygonize              *)
(*                                                                         *)
(* Numbers.  Exposure values are real numbers in the program; here a value *)
(* is an integer count of 1/Scale units, so int(x) is x \div Scale.        *)
(* World coordinates are integer counts of 1/Den units, Den a common       *)
(* multiple of every grid dimension, so that (xmax - xmin) / width is      *)
(* exact.  Rounding error of binary floating point is not modelled.        *)
(***************************************************************************)
EXTENDS Integers, Sequences, FiniteSets, TLC

(***************************************************************************)
(* Bounds of the model                                                     *)
(***************************************************************************)
MaxBands == 2        \* longest threshold list
MaxCells == 3        \* most cells of a classifier grid
Scale    == 2        \* an exposure unit is 1/Scale person
MaxDim   == 4        \* largest width / height of a polygonizer raster
MaxAdds  == 3        \* most Text.add calls in one run

\* nan cell of a layer (get_data(nan=0.0) replaces it by 0)
NaN == -1
\* float('inf'), the default threshold_max
Inf == 1000

HazardValues    == {NaN, 1, 2}
ExposureValues  == {NaN, 1, 3, 2000}
ThresholdValues == {1, 2}
\* <<hazard, exposure>> of a cell of two aligned layers
CellKinds == {<<NaN, 1>>, <<1, 3>>, <<2, 1>>, <<2, 2000>>, <<2, NaN>>}

(***************************************************************************)
(* Grids: [h, w, v] with v the cells in row-major order                    *)
(***************************************************************************)
Shapes == {s \in (1..MaxCells) \X (1..MaxCells) : s[1] * s[2] <= MaxCells}

UniformGrid(shape, value) ==
    [h |-> shape[1], w |-> shape[2],
     v |-> [k \in 1..(shape[1] * shape[2]) |-> value]]

NoGrid == [h |-> 0, w |-> 0, v |-> <<>>]

RECURSIVE SeqSum(_)
SeqSum(s) == IF s = <<>> THEN 0 ELSE s[1] + SeqSum(Tail(s))

RECURSIVE SeqMax(_)
SeqMax(s) == IF Len(s) = 1 THEN s[1]
             ELSE LET m == SeqMax(Tail(s)) IN IF s[1] > m THEN s[1] ELSE m

RECURSIVE SeqMin(_)
SeqMin(s) == IF Len(s) = 1 THEN s[1]
             ELSE LET m == SeqMin(Tail(s)) IN IF s[1] < m THEN s[1] ELSE m

\* layer.get_data(nan=0.0)
get_data(layer) ==
    [layer EXCEPT !.v = [k \in DOMAIN layer.v |->
                            IF layer.v[k] = NaN THEN 0 ELSE layer.v[k]]]

\* numpy broadcasting of two array dimensions
Compatible(a, b) == a = b \/ a = 1 \/ b = 1
Broadcastable(g1, g2) == Compatible(g1.h, g2.h) /\ Compatible(g1.w, g2.w)
BDim(a, b) == IF a = 1 THEN b ELSE a
At(g, r, c) == g.v[((IF g.h = 1 THEN 1 ELSE r) - 1) * g.w
                   + (IF g.w = 1 THEN 1 ELSE c)]

\* the band test of run: data >= lo for the last threshold,
\* (data >= lo) * (data < hi) for the others
InBandMutUpper(d, ths, i) ==
    IF i = Len(ths) THEN d >= ths[i] ELSE d >= ths[i] /\ d <= ths[i + 1]
InBand(d, ths, i) ==
    IF i = Len(ths) THEN d >= ths[i] ELSE d >= ths[i] /\ d < ths[i + 1]

\* numpy.where(<band test on data>, population, 0)
WhereMutMask(d, p, ths, i) ==
    LET H == BDim(d.h, p.h)
        W == BDim(d.w, p.w)
    IN  [h |-> H, w |-> W,
         v |-> [k \in 1..(H * W) |-> At(p, ((k - 1) \div W) + 1, ((k - 1) % W) + 1)]]
Where(d, p, ths, i) ==
    LET H == BDim(d.h, p.h)
        W == BDim(d.w, p.w)
    IN  [h |-> H, w |-> W,
         v |-> [k \in 1..(H * W) |->
                  LET r == ((k - 1) \div W) + 1
                      c == ((k - 1) % W) + 1
                  IN  IF InBand(At(d, r, c), ths, i) THEN At(p, r, c) ELSE 0]]

\* int(numpy.sum(a)): truncation toward zero
IntSumMutCeil(a) == (SeqSum(a.v) + Scale - 1) \div Scale
IntSum(a) ==
    LET s == SeqSum(a.v)
    IN  IF s >= 0 THEN s \div Scale ELSE -((-s) \div Scale)

(***************************************************************************)
(* Collaborators outside the source tree, modelled from the specification  *)
(***************************************************************************)
CeilDiv(a, b) == (a + b - 1) \div b

\* round_up_full: up to the next 10 / 100 / 1000 depending on magnitude
population_rounding_full(number) ==
    LET rounding == IF number = 0 THEN 1
                    ELSE IF number < 1000 THEN 10
                    ELSE IF number < 100000 THEN 100 ELSE 1000
    IN  [number |-> rounding * CeilDiv(number, rounding), rounding |-> rounding]

\* round_up_coarse: values under 1000 unchanged, else up to the next 1000
population_rounding(number) ==
    IF number < 1000 THEN number ELSE 1000 * CeilDiv(number, 1000)

\* the minimum-needs parameters: quantity is num/den per person
MinimumNeeds ==
    << [name |-> "Rice", num |-> 28, den |-> 10, frequency |-> "weekly"],
       [name |-> "Drinking Water", num |-> 175, den |-> 10, frequency |-> "weekly"],
       [name |-> "Toilets", num |-> 1, den |-> 20, frequency |-> "single"] >>

\* a parameter list whose frequencies alternate
MinimumNeedsInterleaved ==
    << [name |-> "Toilets", num |-> 1, den |-> 20, frequency |-> "single"],
       [name |-> "Rice", num |-> 28, den |-> 10, frequency |-> "weekly"],
       [name |-> "Family Kits", num |-> 1, den |-> 3, frequency |-> "once"],
       [name |-> "Drinking Water", num |-> 175, den |-> 10, frequency |-> "weekly"],
       [name |-> "Clean Water", num |-> 67, den |-> 1, frequency |-> "weekly"] >>

\* the parameter lists the function is configured with
ParameterSets == {MinimumNeeds, MinimumNeedsInterleaved}

\* compute_needs: amount = ceil(evacuated * quantity), grouped by frequency
evacuated_population_needs(evac, needs) ==
    [f \in {needs[k].frequency : k \in DOMAIN needs} |->
        LET idx == SelectSeq([k \in DOMAIN needs |-> k],
                             LAMBDA k : needs[k].frequency = f)
        IN  [j \in DOMAIN idx |->
                [name   |-> needs[idx[j]].name,
                 amount |-> CeilDiv(evac * needs[idx[j]].num, needs[idx[j]].den)]]]

\* build_classes: class 0 is the value 0, the others split [0, max] evenly;
\* a break is kept as its numerator over (n - 1) Scale units
create_classes(values, n) == [k \in 1..n |-> (k - 1) * SeqMax(values)]

NoNeeds == [f \in {} |-> <<>>]


(***************************************************************************)
(* State                                                                   *)
(***************************************************************************)
VARIABLES
    \* FloodEvacuationRasterHazardFunction.run
    hazard_layer, exposure_layer, thresholds,   \* the inputs
    pc,                 \* position in run
    data, population,   \* the arrays extracted from the layers
    counts, impact,
    evacuated, rounding_evacuated, total,
    table_body, total_needs, parameters, impact_summary,
    style_classes,
    raster,             \* self._impact: <<>> until run returns it
    message,            \* the message of the ZeroImpactException, <<>> if none
    error,              \* the exception that ended run, "" if none
    \* pixels_to_points / polygonize
    layer,              \* the input QgsRasterLayer
    threshold_min, threshold_max,
    ppc,                \* position in pixels_to_points / polygonize
    row, col,
    cells_read,         \* number of block.value calls so far
    points,             \* the features of point_layer
    rectangles, polygons,
    perror,
    \* _get_pixel_coordinates called on its own
    call, out, mpc,
    \* Text
    texts,              \* self.text of each composite Text object
    calls,              \* the add calls made so far, in order
    terror,             \* the exception of the last add, "" if none
    rendered,           \* the last to_text / to_html call and its result
    tpc

cvars == <<hazard_layer, exposure_layer, thresholds, pc, data, population,
           counts, impact, evacuated, rounding_evacuated, total, table_body,
           total_needs, parameters, impact_summary, style_classes, raster,
           message, error>>
pvars == <<layer, threshold_min, threshold_max, ppc, row, col, cells_read,
           points, rectangles, polygons, perror>>
mvars == <<call, out, mpc>>
tvars == <<texts, calls, terror, rendered, tpc>>
vars  == <<cvars, pvars, mvars, tvars>>

(***************************************************************************)
(* The report table                                                        *)
(***************************************************************************)
Row(kind, name, lo, hi, val) ==
    [kind |-> kind, name |-> name, lo |-> lo, hi |-> hi, val |-> val]

Last(s) == s[Len(s)]

RECURSIVE FrequencyOrder(_, _)
FrequencyOrder(needs, seen) ==
    IF needs = <<>> THEN <<>>
    ELSE IF needs[1].frequency \in seen THEN FrequencyOrder(Tail(needs), seen)
    ELSE <<needs[1].frequency>>
         \o FrequencyOrder(Tail(needs), seen \cup {needs[1].frequency})

RECURSIVE NeedsRows(_, _)
NeedsRows(needs, freqs) ==
    IF freqs = <<>> THEN <<>>
    ELSE <<Row("needs_header", freqs[1], 0, 0, 0)>>
         \o [j \in DOMAIN needs[freqs[1]] |->
                Row("need", needs[freqs[1]][j].name, 0, 0, needs[freqs[1]][j].amount)]
         \o NeedsRows(needs, Tail(freqs))

BreakdownRows(cnts, ths) ==
    [k \in DOMAIN cnts |->
        IF k = Len(ths)
        THEN Row("band", ">=", ths[k], Inf, cnts[k])
        ELSE Row("band", "to", ths[k], ths[k + 1], cnts[k])]

\* lines 57-58, with the parameters handed over in reverse
TotalNeedsMutReversed(evac, needs) ==
    evacuated_population_needs(
        evac, [k \in DOMAIN needs |-> needs[Len(needs) + 1 - k]])

\* lines 57-58: evacuated_population_needs(evacuated, minimum_needs)
TotalNeeds(evac, needs) == evacuated_population_needs(evac, needs)

\* _tabulate
Tabulate(cnts, evac, minimum_needs, rounding, ths, tot) ==
    LET needs == TotalNeeds(evac, minimum_needs)
    IN  [table_body |->
            <<Row("question", "", 0, 0, 0),
              Row("evacuated", "*", Last(ths), 0, evac),
              Row("text", "rounded up to the nearest", 0, 0, rounding),
              Row("text", "Map shows the numbers of people needing evacuation", 0, 0, 0),
              Row("text", "Table below shows the weekly minimum needs", 0, 0, 0)>>
            \o NeedsRows(needs, FrequencyOrder(minimum_needs, {}))
            \o <<Row("header", "Action Checklist:", 0, 0, 0),
                 Row("text", "How will warnings be disseminated?", 0, 0, 0),
                 Row("text", "How will we reach stranded people?", 0, 0, 0),
                 Row("text", "Do we have enough relief items?", 0, 0, 0),
                 Row("text", "If yes, where are they located", 0, 0, 0),
                 Row("text", "If no, where can we obtain additional relief items", 0, 0, 0),
                 Row("header", "Notes", 0, 0, 0),
                 Row("total", "Total population", 0, 0, tot),
                 Row("text", "People need evacuation if flood levels exceed", Last(ths), 0, 0),
                 Row("text", "Minimum needs are defined in BNPB regulation 7/2008", 0, 0, 0),
                 Row("text", "All values are rounded up to the nearest integer", 0, 0, 0),
                 Row("text", "All affected people are assumed to be evacuated.", 0, 0, 0)>>
            \o (IF Len(cnts) > 1
                THEN <<Row("header", "Detailed breakdown", 0, 0, 0)>>
                     \o BreakdownRows(cnts, ths)
                ELSE <<>>),
         total_needs |-> needs]

\* _tabulate_zero_impact: the table_body it is given is not used
TabulateZeroImpactMutKeepBody(evac, body, ths) == body
TabulateZeroImpact(evac, body, ths) ==
    <<Row("question", "", 0, 0, 0), Row("evacuated", "", Last(ths), 0, evac)>>

(***************************************************************************)
(* FloodEvacuationRasterHazardFunction.run                                 *)
(***************************************************************************)
\* numpy.nanmax(impact) == 0 == numpy.nanmin(impact)
IsZeroImpactMutMaxOnly(a) == SeqMin(a.v) = 0
IsZeroImpact(a) == SeqMax(a.v) = 0 /\ 0 = SeqMin(a.v)

colours == <<"#FFFFFF", "#38A800", "#79C900", "#CEED00",
             "#FFCC00", "#FF6600", "#FF0000", "#7A0000">>

\* humanize_class / create_label: the interval of class k and its name
create_label(classes, k, name) ==
    [name |-> name, lo |-> IF k = 1 THEN 0 ELSE classes[k - 1], hi |-> classes[k]]

\* the style loop with the tests on i taken on i + 1
StyleClassesMutShifted(a) ==
    LET classes == create_classes(a.v, Len(colours))
    IN  [k \in DOMAIN colours |->
            [label        |-> IF k = 1 THEN create_label(classes, k, "Low")
                              ELSE IF k = 4 THEN create_label(classes, k, "Medium")
                              ELSE IF k = 7 THEN create_label(classes, k, "High")
                              ELSE create_label(classes, k, ""),
             quantity     |-> classes[k],
             transparency |-> IF k = 0 THEN 100 ELSE 0,
             colour       |-> colours[k]]]

\* the style loop over the colours (k is i + 1 of the program)
StyleClasses(a) ==
    LET classes == create_classes(a.v, Len(colours))
    IN  [k \in DOMAIN colours |->
            [label        |-> IF k - 1 = 1 THEN create_label(classes, k, "Low")
                              ELSE IF k - 1 = 4 THEN create_label(classes, k, "Medium")
                              ELSE IF k - 1 = 7 THEN create_label(classes, k, "High")
                              ELSE create_label(classes, k, ""),
             quantity     |-> classes[k],
             transparency |-> IF k - 1 = 0 THEN 100 ELSE 0,
             colour       |-> colours[k]]]

\* the layers handed to run: aligned grids whose cells are drawn from
\* CellKinds, or two uniform grids of different shapes
InputsC ==
    /\ \/ \E s \in Shapes : \E f \in [1..(s[1] * s[2]) -> CellKinds] :
            /\ hazard_layer = [h |-> s[1], w |-> s[2],
                               v |-> [k \in 1..(s[1] * s[2]) |-> f[k][1]]]
            /\ exposure_layer = [h |-> s[1], w |-> s[2],
                                 v |-> [k \in 1..(s[1] * s[2]) |-> f[k][2]]]
       \/ \E s1 \in Shapes, s2 \in Shapes, hv \in HazardValues, ev \in ExposureValues :
            /\ s1 # s2
            /\ hazard_layer = UniformGrid(s1, hv)
            /\ exposure_layer = UniformGrid(s2, ev)
    /\ thresholds \in UNION {[1..n -> ThresholdValues] : n \in 0..MaxBands}

IdleC ==
    /\ hazard_layer = NoGrid /\ exposure_layer = NoGrid /\ thresholds = <<>>

StartC(p) ==
    /\ pc = p
    /\ data = NoGrid /\ population = NoGrid
    /\ counts = <<>> /\ impact = NoGrid
    /\ evacuated = 0 /\ rounding_evacuated = 0 /\ total = 0
    /\ table_body = <<>> /\ total_needs = NoNeeds /\ impact_summary = <<>>
    /\ parameters = <<>>
    /\ style_classes = <<>> /\ raster = <<>> /\ message = <<>> /\ error = ""

\* lines 133-154: the thresholds are a list; extract the arrays
Extract ==
    /\ pc = "start"
    /\ data' = get_data(hazard_layer)
    /\ population' = get_data(exposure_layer)
    /\ pc' = "bands"
    /\ UNCHANGED <<hazard_layer, exposure_layer, thresholds, counts, impact,
                   evacuated, rounding_evacuated, total, table_body,
                   total_needs, parameters, impact_summary, style_classes, raster,
                   message, error>>
    /\ UNCHANGED <<pvars, mvars, tvars>>

\* lines 160-172: one iteration of the loop over the thresholds
ClassifyBand ==
    /\ pc = "bands"
    /\ Len(counts) < Len(thresholds)
    /\ Broadcastable(data, population)
    /\ LET i      == Len(counts) + 1
           medium == Where(data, population, thresholds, i)
       IN  /\ counts' = Append(counts, IntSum(medium))
           /\ impact' = IF i = Len(thresholds) THEN medium ELSE impact
    /\ UNCHANGED <<hazard_layer, exposure_layer, thresholds, pc, data,
                   population, evacuated, rounding_evacuated, total,
                   table_body, total_needs, parameters, impact_summary, style_classes,
                   raster, message, error>>
    /\ UNCHANGED <<pvars, mvars, tvars>>

\* line 163 / 167: numpy.where on arrays that do not broadcast
ShapeError ==
    /\ pc = "bands"
    /\ Len(counts) < Len(thresholds)
    /\ ~Broadcastable(data, population)
    /\ pc' = "failed"
    /\ error' = "ValueError"
    /\ UNCHANGED <<hazard_layer, exposure_layer, thresholds, data, population,
                   counts, impact, evacuated, rounding_evacuated, total,
                   table_body, total_needs, parameters, impact_summary, style_classes,
                   raster, message>>
    /\ UNCHANGED <<pvars, mvars, tvars>>

\* line 175 with no threshold: counts[-1] of an empty list
NoThreshold ==
    /\ pc = "bands"
    /\ Len(counts) = Len(thresholds)
    /\ counts = <<>>
    /\ pc' = "failed"
    /\ error' = "IndexError"
    /\ UNCHANGED <<hazard_layer, exposure_layer, thresholds, data, population,
                   counts, impact, evacuated, rounding_evacuated, total,
                   table_body, total_needs, parameters, impact_summary, style_classes,
                   raster, message>>
    /\ UNCHANGED <<pvars, mvars, tvars>>

\* line 175, with the coarse rounding in place of the full one
EvacuatedOfMutCoarse(cnts) ==
    [number |-> population_rounding(Last(cnts)), rounding |-> 1000]

\* line 175: population_rounding_full(counts[-1])
EvacuatedOf(cnts) == population_rounding_full(Last(cnts))

\* lines 176-178, with the full rounding in place of the coarse one
TotalOfMutFull(pop) == population_rounding_full(IntSum(pop)).number

\* lines 176-178: population_rounding(int(numpy.sum(population)))
TotalOf(pop) == population_rounding(IntSum(pop))

\* lines 174-178
CountTotals ==
    /\ pc = "bands"
    /\ Len(counts) = Len(thresholds)
    /\ counts # <<>>
    /\ LET r == EvacuatedOf(counts)
       IN  /\ evacuated' = r.number
           /\ rounding_evacuated' = r.rounding
    /\ total' = TotalOf(population)
    /\ pc' = "tabulate"
    /\ UNCHANGED <<hazard_layer, exposure_layer, thresholds, data, population,
                   counts, impact, table_body, total_needs, parameters, impact_summary,
                   style_classes, raster, message, error>>
    /\ UNCHANGED <<pvars, mvars, tvars>>

\* lines 180-194
Report ==
    /\ pc = "tabulate"
    /\ \E minimum_needs \in ParameterSets :
          LET t == Tabulate(counts, evacuated, minimum_needs,
                            rounding_evacuated, thresholds, total)
          IN  /\ parameters' = minimum_needs
              /\ table_body' = t.table_body
              /\ total_needs' = t.total_needs
              /\ impact_summary' = t.table_body
    /\ pc' = "check"
    /\ UNCHANGED <<hazard_layer, exposure_layer, thresholds, data, population,
                   counts, impact, evacuated, rounding_evacuated, total,
                   style_classes, raster, message, error>>
    /\ UNCHANGED <<pvars, mvars, tvars>>

\* lines 196-201
RaiseZeroImpact ==
    /\ pc = "check"
    /\ IsZeroImpact(impact)
    /\ table_body' = TabulateZeroImpact(evacuated, table_body, thresholds)
    /\ message' = table_body'
    /\ error' = "ZeroImpactException"
    /\ pc' = "zero_impact"
    /\ UNCHANGED <<hazard_layer, exposure_layer, thresholds, data, population,
                   counts, impact, evacuated, rounding_evacuated, total,
                   total_needs, parameters, impact_summary, style_classes, raster>>
    /\ UNCHANGED <<pvars, mvars, tvars>>

\* lines 203-234
CreateStyle ==
    /\ pc = "check"
    /\ ~IsZeroImpact(impact)
    /\ style_classes' = StyleClasses(impact)
    /\ pc' = "style"
    /\ UNCHANGED <<hazard_layer, exposure_layer, thresholds, data, population,
                   counts, impact, evacuated, rounding_evacuated, total,
                   table_body, total_needs, parameters, impact_summary, raster, message,
                   error>>
    /\ UNCHANGED <<pvars, mvars, tvars>>

\* lines 244-263
ReturnRaster ==
    /\ pc = "style"
    /\ raster' = <<[data           |-> impact,
                    impact_summary |-> impact_summary,
                    impact_table   |-> impact_summary,
                    evacuated      |-> evacuated,
                    total_needs    |-> total_needs,
                    style_classes  |-> style_classes]>>
    /\ pc' = "done"
    /\ UNCHANGED <<hazard_layer, exposure_layer, thresholds, data, population,
                   counts, impact, evacuated, rounding_evacuated, total,
                   table_body, total_needs, parameters, impact_summary, style_classes,
                   message, error>>
    /\ UNCHANGED <<pvars, mvars, tvars>>

NextC ==
    \/ Extract \/ ClassifyBand \/ ShapeError \/ NoThreshold \/ CountTotals
    \/ Report \/ RaiseZeroImpact \/ CreateStyle \/ ReturnRaster


(***************************************************************************)
(* _get_pixel_coordinates                                                  *)
(***************************************************************************)
RECURSIVE Factorial(_)
Factorial(n) == IF n <= 1 THEN 1 ELSE n * Factorial(n - 1)

\* a world unit is Den coordinate units; every width and height divides Den
Den == Factorial(MaxDim)

Extent(xmin, ymin, xmax, ymax) ==
    [xmin |-> xmin * Den, ymin |-> ymin * Den,
     xmax |-> xmax * Den, ymax |-> ymax * Den]

PixelCoordinatesMutYUp(extent, width, height, r, c) ==
    LET x_res == (extent.xmax - extent.xmin) \div width
        y_res == (extent.ymax - extent.ymin) \div height
    IN  [x |-> extent.xmin + c * x_res, y |-> extent.ymin + r * y_res]
PixelCoordinates(extent, width, height, r, c) ==
    LET xmin  == extent.xmin
        ymax  == extent.ymax
        x_res == (extent.xmax - extent.xmin) \div width
        y_res == (extent.ymax - extent.ymin) \div height
    IN  [x |-> xmin + c * x_res, y |-> ymax - r * y_res]

NoPoint == [x |-> 0, y |-> 0]

InputsM ==
    call \in [extent : {Extent(x0, y0, x1, y1) :
                           x0 \in {0, 1}, y0 \in {0, 1}, x1 \in {4, 5}, y1 \in {4, 5}},
              width : 0..MaxDim, height : 0..MaxDim,
              row : 0..MaxDim, col : 0..MaxDim]

IdleM == call = [extent |-> Extent(0, 0, 0, 0), width |-> 0, height |-> 0,
                 row |-> 0, col |-> 0]

StartM(p) == mpc = p /\ out = NoPoint

\* lines 56-63 on a grid with cells
MapPixel ==
    /\ mpc = "call"
    /\ call.width # 0 /\ call.height # 0
    /\ out' = PixelCoordinates(call.extent, call.width, call.height,
                               call.row, call.col)
    /\ mpc' = "returned"
    /\ UNCHANGED call
    /\ UNCHANGED <<cvars, pvars, tvars>>

\* lines 58-59 with width or height 0: the division raises
MapDegenerate ==
    /\ mpc = "call"
    /\ call.width = 0 \/ call.height = 0
    /\ mpc' = "ZeroDivisionError"
    /\ UNCHANGED <<call, out>>
    /\ UNCHANGED <<cvars, pvars, tvars>>

NextM == MapPixel \/ MapDegenerate

(***************************************************************************)
(* pixels_to_points and polygonize                                         *)
(***************************************************************************)
\* rasters of the model: a block of cells, a diagonal or a chequerboard of
\* one value on a background of another (rows and columns from 0)
BlockGrid(h, w, r1, r2, c1, c2, fg, bg) ==
    [k \in 1..(h * w) |->
        IF ((k - 1) \div w) \in r1..r2 /\ ((k - 1) % w) \in c1..c2
        THEN fg ELSE bg]

DiagonalGrid(h, w, fg, bg) ==
    [k \in 1..(h * w) |-> IF (k - 1) \div w = (k - 1) % w THEN fg ELSE bg]

ChequerGrid(h, w, fg, bg) ==
    [k \in 1..(h * w) |->
        IF (((k - 1) \div w) + ((k - 1) % w)) % 2 = 0 THEN fg ELSE bg]

PatternGrids(h, w, fg, bg) ==
    {BlockGrid(h, w, r1, r2, c1, c2, fg, bg) :
        r1 \in 0..(h - 1), r2 \in 0..(h - 1), c1 \in 0..(w - 1), c2 \in 0..(w - 1)}
    \cup {DiagonalGrid(h, w, fg, bg), ChequerGrid(h, w, fg, bg)}

ValuePairs     == {<<5, 0>>, <<7, 5>>, <<5, 7>>}
ThresholdPairs == {<<0, Inf>>, <<5, Inf>>, <<0, 7>>}
BandCounts     == {0, 1, 2}

InputsP ==
    /\ \E h \in 0..MaxDim, w \in 0..MaxDim, vp \in ValuePairs :
         layer \in [bandCount : BandCounts, width : {w}, height : {h},
                    extent : {Extent(0, 0, 4, 4)},
                    block : PatternGrids(h, w, vp[1], vp[2])]
    /\ \E tp \in ThresholdPairs :
         threshold_min = tp[1] /\ threshold_max = tp[2]

IdleP ==
    /\ layer = [bandCount |-> 0, width |-> 0, height |-> 0,
                extent |-> Extent(0, 0, 0, 0), block |-> <<>>]
    /\ threshold_min = 0 /\ threshold_max = 0

StartP(p) ==
    /\ ppc = p
    /\ row = 0 /\ col = 0 /\ cells_read = 0
    /\ points = <<>> /\ rectangles = <<>> /\ polygons = {} /\ perror = ""

\* block.value(row, col)
BlockValue(l, r, c) == l.block[r * l.width + c + 1]

\* threshold_min < value < threshold_max
SelectedMutInclusiveMin(value, lo, hi) == lo <= value /\ value < hi
Selected(value, lo, hi) == lo < value /\ value < hi

\* raster.rasterUnitsPerPixelX(), raster.rasterUnitsPerPixelY()
UnitsPerPixelX(l) ==
    IF l.width = 0 THEN Inf ELSE (l.extent.xmax - l.extent.xmin) \div l.width
UnitsPerPixelY(l) ==
    IF l.height = 0 THEN Inf ELSE (l.extent.ymax - l.extent.ymin) \div l.height

\* points_to_rectangles: the point is the upper left corner of its rectangle
points_to_rectangles(pts, dx, dy) ==
    [k \in DOMAIN pts |->
        [x |-> pts[k].x, y |-> pts[k].y, dx |-> dx, dy |-> dy,
         value |-> pts[k].value]]

\* two rectangles of the grid share a full edge
SharesEdge(a, b) ==
    \/ a.x = b.x /\ (a.y - b.y = a.dy \/ b.y - a.y = b.dy)
    \/ a.y = b.y /\ (a.x - b.x = b.dx \/ b.x - a.x = a.dx)

RECURSIVE Grow(_, _)
Grow(comp, rest) ==
    LET add == {b \in rest : \E a \in comp : SharesEdge(a, b)}
    IN  IF add = {} THEN comp ELSE Grow(comp \cup add, rest \ add)

RECURSIVE Components(_)
Components(S) ==
    IF S = {} THEN {}
    ELSE LET a == CHOOSE x \in S : TRUE
             c == Grow({a}, S \ {a})
         IN  {c} \cup Components(S \ c)

SetMin(S) == CHOOSE x \in S : \A y \in S : x <= y
SetMax(S) == CHOOSE x \in S : \A y \in S : x >= y

\* the polygon covering a set of merged rectangles
PolygonOf(c) ==
    [cells |-> {<<r.x, r.y>> : r \in c},
     xmin  |-> SetMin({r.x : r \in c}),
     xmax  |-> SetMax({r.x + r.dx : r \in c}),
     ymin  |-> SetMin({r.y - r.dy : r \in c}),
     ymax  |-> SetMax({r.y : r \in c}),
     area  |-> SeqSum([k \in 1..Cardinality(c) |->
                          (CHOOSE r \in c : TRUE).dx * (CHOOSE r \in c : TRUE).dy])]

\* union_geometry: rectangles sharing an edge merge into one polygon
union_geometry(rects) ==
    {PolygonOf(c) : c \in Components({rects[k] : k \in DOMAIN rects})}

\* raster.bandCount() != 1 raises NotImplementedError
BandsSupportedMutAtLeastOne(l) == l.bandCount >= 1
BandsSupported(l) == l.bandCount = 1

\* lines 94-96
RejectBands ==
    /\ ppc = "start"
    /\ ~BandsSupported(layer)
    /\ ppc' = "failed"
    /\ perror' = "NotImplementedError"
    /\ UNCHANGED <<layer, threshold_min, threshold_max, row, col, cells_read,
                   points, rectangles, polygons>>
    /\ UNCHANGED <<cvars, mvars, tvars>>

\* lines 94-113: one band; the block is fetched and the point layer created
OpenLayer ==
    /\ ppc = "start"
    /\ BandsSupported(layer)
    /\ ppc' = "scan"
    /\ row' = 0 /\ col' = 0
    /\ points' = <<>>
    /\ UNCHANGED <<layer, threshold_min, threshold_max, cells_read,
                   rectangles, polygons, perror>>
    /\ UNCHANGED <<cvars, mvars, tvars>>

\* lines 114-125: one cell of the scan
ScanCell ==
    /\ ppc = "scan"
    /\ row < layer.height /\ col < layer.width
    /\ LET value == BlockValue(layer, row, col)
           xy    == PixelCoordinates(layer.extent, layer.width, layer.height,
                                     row, col)
       IN  points' = IF Selected(value, threshold_min, threshold_max)
                     THEN Append(points, [x |-> xy.x, y |-> xy.y, value |-> value])
                     ELSE points
    /\ cells_read' = cells_read + 1
    /\ IF col + 1 < layer.width
       THEN col' = col + 1 /\ row' = row
       ELSE col' = 0 /\ row' = row + 1
    /\ UNCHANGED <<layer, threshold_min, threshold_max, ppc, rectangles,
                   polygons, perror>>
    /\ UNCHANGED <<cvars, mvars, tvars>>

\* lines 114-115 on a raster of width 0: a row without cells
SkipEmptyRow ==
    /\ ppc = "scan"
    /\ row < layer.height /\ layer.width = 0
    /\ row' = row + 1
    /\ UNCHANGED <<layer, threshold_min, threshold_max, ppc, col, cells_read,
                   points, rectangles, polygons, perror>>
    /\ UNCHANGED <<cvars, mvars, tvars>>

\* lines 126-128: pixels_to_points called on its own returns the point layer
ReturnPoints ==
    /\ ppc = "scan"
    /\ row >= layer.height
    /\ ppc' = "points_returned"
    /\ UNCHANGED <<layer, threshold_min, threshold_max, row, col, cells_read,
                   points, rectangles, polygons, perror>>
    /\ UNCHANGED <<cvars, mvars, tvars>>

\* lines 153-157: polygonize expands the points it got to rectangles
ExpandRectangles ==
    /\ ppc = "scan"
    /\ row >= layer.height
    /\ rectangles' = points_to_rectangles(points, UnitsPerPixelX(layer),
                                          UnitsPerPixelY(layer))
    /\ ppc' = "union"
    /\ UNCHANGED <<layer, threshold_min, threshold_max, row, col, cells_read,
                   points, polygons, perror>>
    /\ UNCHANGED <<cvars, mvars, tvars>>

\* line 158: polygons = union_geometry(polygons)
UnionStepMutSkipped(rects) == {PolygonOf({rects[k]}) : k \in DOMAIN rects}
UnionStep(rects) == union_geometry(rects)

\* lines 158-159
UnionRectangles ==
    /\ ppc = "union"
    /\ polygons' = UnionStep(rectangles)
    /\ ppc' = "done"
    /\ UNCHANGED <<layer, threshold_min, threshold_max, row, col, cells_read,
                   points, rectangles, perror>>
    /\ UNCHANGED <<cvars, mvars, tvars>>

NextP ==
    \/ RejectBands \/ OpenLayer \/ ScanCell \/ SkipEmptyRow \/ ReturnPoints
    \/ ExpandRectangles \/ UnionRectangles

(***************************************************************************)
(* Text: a composite of PlainText leaves and Text objects (text.py)        *)
(***************************************************************************)
\* a string is the sequence of its characters
Space == <<" ">>

\* the composite Text objects of a run
TextIds == {1, 2}

\* the strings handed to add
StringValues == {<<>>, <<"a">>, <<" ", "b", " ", " ", "c">>}

\* the items handed to add: a string, a PlainText, a Text, something else
Str(s)       == [kind |-> "str", text |-> s, ref |-> 0]
PlainText(s) == [kind |-> "PlainText", text |-> s, ref |-> 0]
TextRef(i)   == [kind |-> "Text", text |-> <<>>, ref |-> i]
OtherItem    == [kind |-> "int", text |-> <<>>, ref |-> 0]
Items ==
    {Str(s) : s \in StringValues} \cup {PlainText(<<"d", " ">>)}
    \cup {TextRef(i) : i \in TextIds} \cup {OtherItem}

NoRender == [target |-> 0, method |-> "", raised |-> FALSE, value |-> <<>>]

\* isinstance(text, Text): PlainText is a subclass of Text
IsText(x) == x.kind \in {"Text", "PlainText"}

\* lines 66-71, with insert(0, ...) in place of append
addMutPrepend(elements, x) ==
    IF x.kind = "str"
    THEN [text |-> <<PlainText(x.text)>> \o elements, error |-> ""]
    ELSE IF IsText(x)
    THEN [text |-> <<x>> \o elements, error |-> ""]
    ELSE [text |-> elements, error |-> "InvalidMessageItemError"]

\* Text.add: the new self.text and the exception raised, "" if none
add(elements, x) ==
    IF x.kind = "str"
    THEN [text |-> Append(elements, PlainText(x.text)), error |-> ""]
    ELSE IF IsText(x)
    THEN [text |-> Append(elements, x), error |-> ""]
    ELSE [text |-> elements, error |-> "InvalidMessageItemError"]

\* the length of the word a string starts with
RECURSIVE WordLen(_)
WordLen(s) == IF s = <<>> \/ s[1] = " " THEN 0 ELSE 1 + WordLen(Tail(s))

\* str.split(): the words between runs of whitespace
RECURSIVE Split(_)
Split(s) ==
    IF s = <<>> THEN <<>>
    ELSE IF s[1] = " " THEN Split(Tail(s))
    ELSE <<SubSeq(s, 1, WordLen(s))>>
         \o Split(SubSeq(s, WordLen(s) + 1, Len(s)))

\* sep.join(words)
RECURSIVE Join(_, _)
Join(words, sep) ==
    IF words = <<>> THEN <<>>
    ELSE IF Len(words) = 1 THEN words[1]
    ELSE words[1] \o sep \o Join(Tail(words), sep)

\* text += t.to_text() + ' ' over the rendered elements
RECURSIVE Accumulate(_)
Accumulate(parts) ==
    IF parts = <<>> THEN <<>>
    ELSE parts[1].value \o Space \o Accumulate(Tail(parts))

\* the calls an acyclic composite can nest; a deeper recursion never ends
\* and is cut by the interpreter (RuntimeError)
RecursionLimit == Cardinality(TextIds) + 1

\* Text.to_text on object i, PlainText.to_text on a leaf
RECURSIVE to_text(_, _, _)
to_text(heap, i, depth) ==
    IF depth = 0 THEN [raised |-> TRUE, value |-> <<>>]
    ELSE LET parts == [k \in DOMAIN heap[i] |->
                          IF heap[i][k].kind = "PlainText"
                          THEN [raised |-> FALSE, value |-> heap[i][k].text]
                          ELSE to_text(heap, heap[i][k].ref, depth - 1)]
         IN  IF \E k \in DOMAIN parts : parts[k].raised
             THEN [raised |-> TRUE, value |-> <<>>]
             ELSE [raised |-> FALSE,
                   value  |-> Join(Split(Accumulate(parts)), Space)]

\* Text.to_html on object i; PlainText.to_html is its to_text
RECURSIVE to_html(_, _, _)
to_html(heap, i, depth) ==
    IF depth = 0 THEN [raised |-> TRUE, value |-> <<>>]
    ELSE LET parts == [k \in DOMAIN heap[i] |->
                          IF heap[i][k].kind = "PlainText"
                          THEN [raised |-> FALSE, value |-> heap[i][k].text]
                          ELSE to_html(heap, heap[i][k].ref, depth - 1)]
         IN  IF \E k \in DOMAIN parts : parts[k].raised
             THEN [raised |-> TRUE, value |-> <<>>]
             ELSE [raised |-> FALSE,
                   value  |-> Join(Split(Accumulate(parts)), Space)]

\* Text(): self.text = []
StartT(p) ==
    /\ tpc = p
    /\ texts = [i \in TextIds |-> <<>>]
    /\ calls = <<>> /\ terror = "" /\ rendered = NoRender

\* lines 51-71
Add ==
    /\ tpc = "ready"
    /\ Len(calls) < MaxAdds
    /\ \E i \in TextIds, x \in Items :
          /\ texts' = [texts EXCEPT ![i] = add(texts[i], x).text]
          /\ terror' = add(texts[i], x).error
          /\ calls' = Append(calls, [target |-> i, item |-> x])
    /\ UNCHANGED <<rendered, tpc>>
    /\ UNCHANGED <<cvars, pvars, mvars>>

\* lines 93-111
ToText ==
    /\ tpc = "ready"
    /\ \E i \in TextIds :
          LET r == to_text(texts, i, RecursionLimit)
          IN  rendered' = [target |-> i, method |-> "to_text",
                           raised |-> r.raised, value |-> r.value]
    /\ tpc' = "rendered"
    /\ UNCHANGED <<texts, calls, terror>>
    /\ UNCHANGED <<cvars, pvars, mvars>>

\* lines 73-91
ToHtml ==
    /\ tpc = "ready"
    /\ \E i \in TextIds :
          LET r == to_html(texts, i, RecursionLimit)
          IN  rendered' = [target |-> i, method |-> "to_html",
                           raised |-> r.raised, value |-> r.value]
    /\ tpc' = "rendered"
    /\ UNCHANGED <<texts, calls, terror>>
    /\ UNCHANGED <<cvars, pvars, mvars>>

NextT ==
    \/ Add \/ ToText \/ ToHtml


(***************************************************************************)
(* Specifications: one per entry point                                     *)
(***************************************************************************)
InitClassify   == InputsC /\ StartC("start") /\ IdleP /\ StartP("idle")
                  /\ IdleM /\ StartM("idle") /\ StartT("idle")
InitPolygonize == IdleC /\ StartC("idle") /\ InputsP /\ StartP("start")
                  /\ IdleM /\ StartM("idle") /\ StartT("idle")
InitMapper     == IdleC /\ StartC("idle") /\ IdleP /\ StartP("idle")
                  /\ InputsM /\ StartM("call") /\ StartT("idle")
InitText       == IdleC /\ StartC("idle") /\ IdleP /\ StartP("idle")
                  /\ IdleM /\ StartM("idle") /\ StartT("ready")

SpecClassify   == InitClassify /\ [][NextC]_vars
SpecPolygonize == InitPolygonize /\ [][NextP]_vars
SpecMapper     == InitMapper /\ [][NextM]_vars
SpecText       == InitText /\ [][NextT]_vars


(***************************************************************************)
(* Properties of the classifier, stated on the input layers                *)
(***************************************************************************)
\* the value of cell k of a layer, nodata read as 0
CellValue(l, k) == IF l.v[k] = NaN THEN 0 ELSE l.v[k]

CellsOf(l) == 1..(l.h * l.w)

Aligned == hazard_layer.h = exposure_layer.h /\ hazard_layer.w = exposure_layer.w

StrictlyIncreasing(ths) ==
    /\ Len(ths) >= 1
    /\ \A k \in 1..(Len(ths) - 1) : ths[k] < ths[k + 1]

\* the exposure over a set of cells, in 1/Scale units
RECURSIVE ExposureOver(_)
ExposureOver(S) ==
    IF S = {} THEN 0
    ELSE LET k == CHOOSE x \in S : TRUE
         IN  CellValue(exposure_layer, k) + ExposureOver(S \ {k})

\* n is the whole number of units in x >= 0 (truncation)
IsWholePart(n, x) == n * Scale <= x /\ x < (n + 1) * Scale

\* the cells of band i: [thresholds[i], thresholds[i+1]), the last unbounded
BandCells(i) ==
    {k \in CellsOf(hazard_layer) :
        /\ CellValue(hazard_layer, k) >= thresholds[i]
        /\ i < Len(thresholds) => CellValue(hazard_layer, k) < thresholds[i + 1]}

\* the loop over the thresholds has run to its end
BandsCounted == pc \in {"tabulate", "check", "zero_impact", "style", "done"}

Abs(x) == IF x < 0 THEN -x ELSE x

\* C1: for strictly increasing thresholds and aligned grids the band counts
\* add up to the exposure of the cells with hazard >= thresholds[0], up to
\* one unit of truncation per band.
C1_BandCountsSumToExposedTotal ==
    (BandsCounted /\ Aligned /\ StrictlyIncreasing(thresholds)) =>
        LET exposed == ExposureOver({k \in CellsOf(hazard_layer) :
                            CellValue(hazard_layer, k) >= thresholds[1]})
        IN  Abs(exposed - Scale * SeqSum(counts)) <= Scale * Len(thresholds)

C1_Witness ==
    /\ pc = "tabulate" /\ Aligned /\ StrictlyIncreasing(thresholds)
    /\ Len(thresholds) = 2
    /\ counts[1] > 0 /\ counts[2] > 0
    /\ \E k \in CellsOf(hazard_layer) : CellValue(hazard_layer, k) < thresholds[1]
    /\ ExposureOver({k \in CellsOf(hazard_layer) :
           CellValue(hazard_layer, k) >= thresholds[1]}) # Scale * SeqSum(counts)

ImpactAllZero ==
    /\ \A k \in DOMAIN impact.v : impact.v[k] <= 0
    /\ \A k \in DOMAIN impact.v : impact.v[k] >= 0

\* C4: ZeroImpact is raised exactly when the maximum and the minimum of the
\* impact grid are 0; then no raster and no style classes exist; otherwise
\* run goes on to the style and returns the raster without ZeroImpact.
C4_ZeroImpactExactlyWhenAllZero ==
    /\ pc = "zero_impact" =>
          /\ ImpactAllZero
          /\ error = "ZeroImpactException" /\ message # <<>>
          /\ raster = <<>> /\ style_classes = <<>>
    /\ pc \in {"style", "done"} =>
          /\ ~ImpactAllZero
          /\ error = "" /\ message = <<>>
          /\ style_classes # <<>>
    /\ pc = "done" => (raster # <<>> /\ raster[1].data = impact)
    /\ pc \notin {"done"} => raster = <<>>

C4_Witness ==
    /\ pc = "zero_impact" /\ Aligned
    /\ \E k \in CellsOf(hazard_layer) :
          CellValue(hazard_layer, k) >= Last(thresholds)
    /\ Len(counts) = 2 /\ counts[1] > 0

\* every hazard cell is below the last threshold
HazardBelowLastThreshold ==
    /\ thresholds # <<>>
    /\ \A k \in CellsOf(hazard_layer) :
          CellValue(hazard_layer, k) < Last(thresholds)

\* the message lists the count of every band
MessageListsBandCounts ==
    \A i \in DOMAIN counts :
       \E j \in DOMAIN message :
          /\ message[j].kind = "band"
          /\ message[j].lo = thresholds[i]
          /\ message[j].val = counts[i]

C6_PreconditionsCheckedBeforeOutput ==
    (pc # "idle" /\ (~Aligned \/ ~StrictlyIncreasing(thresholds))) =>
        /\ counts = <<>> /\ impact = NoGrid
        /\ pc \in {"start", "bands", "failed"}


(***************************************************************************)
(* Properties of pixels_to_points, polygonize and _get_pixel_coordinates   *)
(***************************************************************************)
\* C7: on a raster with more than one band pixels_to_points and polygonize
\* fail (NotImplementedError, the UnsupportedBandCount failure) before any
\* cell is read and before any point, rectangle or polygon exists.
C7_MultiBandRejectedFirst ==
    (ppc # "idle" /\ layer.bandCount > 1) =>
        /\ ppc \in {"start", "failed"}
        /\ ppc = "failed" => perror = "NotImplementedError"
        /\ cells_read = 0
        /\ points = <<>> /\ rectangles = <<>> /\ polygons = {}

C7_Witness ==
    /\ ppc = "failed" /\ perror = "NotImplementedError"
    /\ layer.bandCount = 2
    /\ \E k \in DOMAIN layer.block :
          threshold_min < layer.block[k] /\ layer.block[k] < threshold_max

\* the cells read so far that lie strictly between the two thresholds, in
\* the order of the scan (cell k is row (k-1) \div width, column (k-1) % width)
SelectedSoFar ==
    SelectSeq([k \in 1..cells_read |-> k],
              LAMBDA k : threshold_min < layer.block[k]
                         /\ layer.block[k] < threshold_max)

ScanComplete == ppc \in {"points_returned", "union", "done"}

\* C8: one feature per cell with threshold_min < value < threshold_max (a
\* cell equal to a bound is not selected), carrying the cell's value and the
\* world coordinate of its (row, col), in row-major order.
C8_PointsAreSelectedCellsInScanOrder ==
    (ppc \in {"scan", "points_returned", "union", "done"}) =>
        /\ ScanComplete => cells_read = layer.height * layer.width
        /\ ppc = "scan" => cells_read = row * layer.width + col
        /\ Len(points) = Len(SelectedSoFar)
        /\ \A j \in DOMAIN points :
              LET k == SelectedSoFar[j]
                  r == (k - 1) \div layer.width
                  c == (k - 1) % layer.width
              IN  /\ points[j].value = layer.block[k]
                  /\ points[j].x * layer.width =
                        layer.extent.xmin * layer.width
                        + c * (layer.extent.xmax - layer.extent.xmin)
                  /\ points[j].y * layer.height =
                        layer.extent.ymax * layer.height
                        - r * (layer.extent.ymax - layer.extent.ymin)

C8_Witness ==
    /\ ppc = "points_returned"
    /\ layer.height >= 2 /\ layer.width >= 3
    /\ Len(points) >= 2 /\ Len(points) < cells_read
    /\ \E k \in DOMAIN layer.block : layer.block[k] = threshold_min
    /\ points[1].y # points[Len(points)].y
    /\ points[1].x # points[2].x

\* the upper left corner of cell (r, c), in coordinate units
CornerOf(r, c) ==
    << (c * (layer.extent.xmax - layer.extent.xmin)) \div layer.width,
       layer.extent.ymax
       - (r * (layer.extent.ymax - layer.extent.ymin)) \div layer.height >>

IsSelectedCell(r, c) ==
    /\ r \in 0..(layer.height - 1) /\ c \in 0..(layer.width - 1)
    /\ threshold_min < layer.block[r * layer.width + c + 1]
    /\ layer.block[r * layer.width + c + 1] < threshold_max

\* the 4x4 example: cells (1,1), (1,2), (2,1), (2,2) hold 5, the others 0
IsExample4x4 ==
    /\ layer.width = 4 /\ layer.height = 4
    /\ layer.extent = Extent(0, 0, 4, 4)
    /\ layer.block = [k \in 1..16 |-> IF k \in {6, 7, 10, 11} THEN 5 ELSE 0]
    /\ threshold_min = 0 /\ threshold_max = Inf

\* C9: polygonize merges the rectangles of selected cells that share a full
\* edge: every selected cell lies in exactly one polygon, neighbours in a row
\* or a column lie in the same one, and the 4x4 example yields the single
\* 2x2 square over its four cells.
C9_AdjacentRectanglesMerge ==
    (ppc = "done") =>
        /\ \A r \in 0..(layer.height - 1), c \in 0..(layer.width - 1) :
              /\ Cardinality({p \in polygons : CornerOf(r, c) \in p.cells})
                    = IF IsSelectedCell(r, c) THEN 1 ELSE 0
              /\ (IsSelectedCell(r, c) /\ IsSelectedCell(r, c + 1)) =>
                    \E p \in polygons :
                       CornerOf(r, c) \in p.cells /\ CornerOf(r, c + 1) \in p.cells
              /\ (IsSelectedCell(r, c) /\ IsSelectedCell(r + 1, c)) =>
                    \E p \in polygons :
                       CornerOf(r, c) \in p.cells /\ CornerOf(r + 1, c) \in p.cells
        /\ IsExample4x4 =>
              /\ Cardinality(polygons) = 1
              /\ \A p \in polygons :
                    /\ p.xmin = 1 * Den /\ p.xmax = 3 * Den
                    /\ p.ymin = 1 * Den /\ p.ymax = 3 * Den
                    /\ p.area = (2 * Den) * (2 * Den)

C9_Witness ==
    /\ ppc = "done" /\ IsExample4x4
    /\ Len(rectangles) = 4
    /\ Cardinality(polygons) = 1

\* C10: x = xmin + col * (xmax - xmin) / width, y = ymax - row * (ymax - ymin)
\* / height; one more column adds the horizontal resolution to x and leaves
\* y, one more row takes the vertical resolution from y and leaves x; extent
\* (0,0)-(4,4) with width = height = 4 maps (row 0, col 0) to (0, 4).
C10_PixelToWorldIsLinear ==
    (mpc = "returned") =>
        LET e     == call.extent
            right == PixelCoordinates(e, call.width, call.height,
                                      call.row, call.col + 1)
            below == PixelCoordinates(e, call.width, call.height,
                                      call.row + 1, call.col)
        IN  /\ out.x * call.width = e.xmin * call.width + call.col * (e.xmax - e.xmin)
            /\ out.y * call.height = e.ymax * call.height - call.row * (e.ymax - e.ymin)
            /\ (right.x - out.x) * call.width = e.xmax - e.xmin
            /\ right.y = out.y
            /\ (out.y - below.y) * call.height = e.ymax - e.ymin
            /\ below.x = out.x
            /\ (e = Extent(0, 0, 4, 4) /\ call.width = 4 /\ call.height = 4
                /\ call.row = 0 /\ call.col = 0) =>
                  out = [x |-> 0, y |-> 4 * Den]

C10_Witness ==
    /\ mpc = "returned"
    /\ call = [extent |-> Extent(0, 0, 4, 4), width |-> 4, height |-> 4,
               row |-> 0, col |-> 0]
    /\ out = [x |-> 0, y |-> 4 * Den]


\* C11 as stated: on a grid of width or height 0 the coordinate mapping
\* fails (DegenerateGrid) and computes nothing, both when it is called on
\* its own and in the cell scan, which then returns no normal result.
C11_DegenerateGridFails ==
    /\ (mpc # "idle" /\ (call.width = 0 \/ call.height = 0)) =>
          (mpc \in {"call", "ZeroDivisionError"} /\ out = NoPoint)
    /\ (ppc # "idle" /\ layer.bandCount = 1
        /\ (layer.width = 0 \/ layer.height = 0)) =>
          ppc \notin {"points_returned", "union", "done"}


\* the unit the full rounding works in for a count c
FullUnit(c) == IF c < 1000 THEN 10 ELSE IF c < 100000 THEN 100 ELSE 1000

\* C12: the evacuated count is the full rounding of the last band's count:
\* it is >= that count, it is 0 (with rounding 1) when the count is 0, and
\* otherwise it is the least multiple of the unit of the count's magnitude
\* (10, 100, 1000) that is >= the count, so never the coarse rounding, which
\* would leave a count below 1000 as it is and lift a larger one to a
\* multiple of 1000.
C12_EvacuatedIsFullRounding ==
    BandsCounted =>
        LET c == Last(counts)
        IN  /\ evacuated >= c
            /\ c = 0 => (evacuated = 0 /\ rounding_evacuated = 1)
            /\ c > 0 => /\ rounding_evacuated = FullUnit(c)
                        /\ evacuated % FullUnit(c) = 0
                        /\ evacuated - c < FullUnit(c)

C12_Witness ==
    /\ pc = "done"
    /\ Last(counts) = 1001
    /\ evacuated = 1100 /\ rounding_evacuated = 100
    /\ evacuated % 1000 # 0

\* C13: the reported total is the coarse rounding of the truncated sum of
\* the exposure over every cell of the exposure grid, whatever the hazard,
\* nodata counted as 0: the sum itself below 1000, and from 1000 on the
\* least multiple of 1000 that is >= the sum; the band counts stay the
\* unrounded truncated sums of their bands.
C13_TotalIsCoarseRoundedSum ==
    BandsCounted =>
        LET s == ExposureOver(CellsOf(exposure_layer)) \div Scale
        IN  /\ s < 1000 => total = s
            /\ s >= 1000 => (total >= s /\ total % 1000 = 0 /\ total - s < 1000)
            /\ Aligned =>
                  \A i \in DOMAIN counts :
                     IsWholePart(counts[i], ExposureOver(BandCells(i)))

C13_Witness ==
    /\ pc = "done" /\ Aligned
    /\ ExposureOver(CellsOf(exposure_layer)) \div Scale = 1002
    /\ total = 2000
    /\ Len(counts) = 2 /\ counts[1] = 1 /\ counts[2] = 1000
    /\ \E k \in CellsOf(exposure_layer) : exposure_layer.v[k] = 1


\* run has tabulated the needs
NeedsComputed == pc \in {"check", "zero_impact", "style", "done"}

\* the entries of the needs table, as <<frequency, position in its group>>
NeedEntries ==
    UNION {{<<f, j>> : j \in DOMAIN total_needs[f]} : f \in DOMAIN total_needs}

\* a is the least integer >= evac * num / den
IsCeilOfProduct(a, evac, num, den) ==
    a * den >= evac * num /\ (a - 1) * den < evac * num

\* C14: the needs table has, for every minimum-need parameter, exactly one
\* entry; its amount is ceil(evacuated * quantity), it stands in the group
\* of the parameter's frequency, and within a group the entries follow the
\* order of the parameters; the table rows show the same amounts.
C14_NeedsPerParameter ==
    NeedsComputed =>
        /\ DOMAIN total_needs = {parameters[k].frequency : k \in DOMAIN parameters}
        /\ Cardinality(NeedEntries) = Len(parameters)
        /\ \A f \in DOMAIN total_needs : DOMAIN total_needs[f] = 1..Len(total_needs[f])
        /\ \A k \in DOMAIN parameters :
              \E e \in NeedEntries :
                 /\ total_needs[e[1]][e[2]].name = parameters[k].name
                 /\ e[1] = parameters[k].frequency
                 /\ IsCeilOfProduct(total_needs[e[1]][e[2]].amount, evacuated,
                                    parameters[k].num, parameters[k].den)
                 /\ \A d \in NeedEntries :
                       total_needs[d[1]][d[2]].name = parameters[k].name => d = e
                 /\ pc # "zero_impact" =>
                       \E r \in DOMAIN table_body :
                          /\ table_body[r].kind = "need"
                          /\ table_body[r].name = parameters[k].name
                          /\ table_body[r].val = total_needs[e[1]][e[2]].amount
        /\ \A k1, k2 \in DOMAIN parameters :
              (k1 < k2 /\ parameters[k1].frequency = parameters[k2].frequency) =>
                  \E j1, j2 \in DOMAIN total_needs[parameters[k1].frequency] :
                     /\ j1 < j2
                     /\ total_needs[parameters[k1].frequency][j1].name = parameters[k1].name
                     /\ total_needs[parameters[k1].frequency][j2].name = parameters[k2].name

C14_Witness ==
    /\ pc = "done"
    /\ evacuated = 1000
    /\ parameters = MinimumNeedsInterleaved
    /\ total_needs["weekly"] = << [name |-> "Rice", amount |-> 2800],
                                  [name |-> "Drinking Water", amount |-> 17500],
                                  [name |-> "Clean Water", amount |-> 67000] >>
    /\ total_needs["single"] = << [name |-> "Toilets", amount |-> 50] >>
    /\ total_needs["once"] = << [name |-> "Family Kits", amount |-> 334] >>


\* run has built the display classes
Styled == pc \in {"style", "done"}

\* C15: the style has one class per colour, 8 for the palette of run; class
\* 0 (the first) has quantity 0, covers the value 0 alone and is the only
\* one with transparency 100, every other has transparency 0; the classes
\* 1, 4 and 7 (the 2nd, 5th and 8th) are labelled Low, Medium and High and
\* no other class carries one of these names.
C15_StyleClassesFixedLayout ==
    Styled =>
        /\ Len(style_classes) = Len(colours) /\ Len(style_classes) = 8
        /\ style_classes[1].quantity = 0
        /\ style_classes[1].label.lo = 0 /\ style_classes[1].label.hi = 0
        /\ \A k \in DOMAIN style_classes :
              /\ style_classes[k].transparency = (IF k = 1 THEN 100 ELSE 0)
              /\ style_classes[k].colour = colours[k]
              /\ style_classes[k].label.name = "Low" <=> k = 2
              /\ style_classes[k].label.name = "Medium" <=> k = 5
              /\ style_classes[k].label.name = "High" <=> k = 8
              /\ k \notin {2, 5, 8} => style_classes[k].label.name = ""

C15_Witness ==
    /\ pc = "done"
    /\ Len(style_classes) = 8
    /\ style_classes[8].quantity > 0
    /\ style_classes[1].transparency = 100 /\ style_classes[2].transparency = 0
    /\ style_classes[5].label.name = "Medium"


(***************************************************************************)
(* Properties of Text, stated on the log of add calls                      *)
(***************************************************************************)
\* the kinds of item add takes
Accepted(x) == x.kind \in {"str", "PlainText", "Text"}

\* what an accepted item becomes in the element list
Wrapped(x) == IF x.kind = "str" THEN PlainText(x.text) ELSE x

\* the accepted items of the calls on object i, in call order
RECURSIVE AcceptedItems(_, _)
AcceptedItems(log, i) ==
    IF log = <<>> THEN <<>>
    ELSE (IF log[1].target = i /\ Accepted(log[1].item)
          THEN <<Wrapped(log[1].item)>> ELSE <<>>)
         \o AcceptedItems(Tail(log), i)

\* every element list is the accepted items in order, and the last add
\* raised InvalidMessageItemError exactly when its item was of another kind
ElementsAreAcceptedItems ==
    /\ \A i \in TextIds : texts[i] = AcceptedItems(calls, i)
    /\ calls # <<>> =>
          (terror = "InvalidMessageItemError" <=> ~Accepted(Last(calls).item))
    /\ calls = <<>> => terror = ""

\* the Text objects among the elements of object j
Refs(j) == {texts[j][k].ref : k \in {n \in DOMAIN texts[j] : texts[j][n].kind = "Text"}}

RECURSIVE Closure(_)
Closure(S) ==
    LET T == S \cup UNION {Refs(j) : j \in S}
    IN  IF T = S THEN S ELSE Closure(T)

\* object i contains, directly or through its elements, a Text that
\* contains itself
Cyclic(i) == \E j \in Closure({i}) : j \in Closure(Refs(j))

\* what the elements of object i render to, one by one
ElementRenderings(i) ==
    [k \in DOMAIN texts[i] |->
        IF texts[i][k].kind = "PlainText" THEN texts[i][k].text
        ELSE to_text(texts, texts[i][k].ref, RecursionLimit).value]

\* the words of the strings of object i from element k on, nested Text
\* objects expanded in place (i is not cyclic)
RECURSIVE WordsFrom(_, _)
WordsFrom(i, k) ==
    IF k > Len(texts[i]) THEN <<>>
    ELSE (IF texts[i][k].kind = "PlainText" THEN Split(texts[i][k].text)
          ELSE WordsFrom(texts[i][k].ref, 1))
         \o WordsFrom(i, k + 1)

\* C16 as stated: the element list is the accepted items in order, a
\* rejected add raises InvalidMessageItemError and changes nothing, and
\* to_text / to_html return the renderings of the elements, in order,
\* separated by single spaces.
C16_RenderJoinsElements ==
    /\ ElementsAreAcceptedItems
    /\ (rendered # NoRender /\ ~rendered.raised) =>
          rendered.value = Join(ElementRenderings(rendered.target), Space)

\* C16: the element list is the accepted items in order (a string wrapped
\* as one PlainText, a Text kept as it is), a rejected add raises
\* InvalidMessageItemError and changes nothing; to_text / to_html return
\* the words of the elements, in element order, separated by single
\* spaces: whitespace at the ends and runs of whitespace inside an element
\* are collapsed and an empty element adds nothing; a Text that contains
\* itself cannot be rendered.
C16_RenderJoinsWords ==
    /\ ElementsAreAcceptedItems
    /\ rendered # NoRender =>
          IF Cyclic(rendered.target) THEN rendered.raised
          ELSE /\ ~rendered.raised
               /\ rendered.value = Join(WordsFrom(rendered.target, 1), Space)

C16_Witness ==
    /\ rendered # NoRender /\ ~rendered.raised
    /\ Len(texts[rendered.target]) >= 2
    /\ \E k \in DOMAIN texts[rendered.target] :
          texts[rendered.target][k].kind = "Text"
    /\ \E n \in DOMAIN calls :
          calls[n].target = rendered.target /\ ~Accepted(calls[n].item)
    /\ rendered.value # <<>>
    /\ rendered.value # Join(ElementRenderings(rendered.target), Space)

====
